---- MODULE Spec2Model ----
(***************************************************************************)
(* A model of anipose/triangulate.py: the coordinate frame alignment       *)
(* (correct_coordinate_frame), the triangulation pipeline (triangulate),   *)
(* and the batch loop over the videos of a session (process_session).      *)
(*                                                                         *)
(* Floating point values are modelled exactly.  A float is either NaN or   *)
(* an integer numerator over a scale that the comments of each definition  *)
(* name; arithmetic on NaN gives NaN, as in numpy.                         *)
(***************************************************************************)
EXTENDS Integers, Sequences, FiniteSets, TLC

VARIABLES
    \* correct_coordinate_frame and the table written after it
    ref_point,          \* config['triangulation']['reference_point']
    axes_spec,          \* config['triangulation']['axes']
    all_points_3d,      \* [frame][bodypart] -> 3-D point
    M,                  \* the basis built by correct_coordinate_frame
    all_points_3d_adj,  \* the points it returns
    align_pc,           \* "call", "returned", "raised" (KeyError), "written"
    \* triangulate
    config,             \* the config: a function from the sections it has
    ransac,             \* config['triangulation']['ransac']
    pose_files,         \* [camera] -> the rows of its pose file, by frame number
    all_points_raw,     \* [frame][camera][joint] -> <<x, y>>
    all_scores,         \* [frame][camera][joint] -> score, in tenths
    points_2d,          \* [camera][flat point] -> <<x, y>>, handed to the solver
    solved,             \* what the solver returned
    num_cams,           \* [frame][joint]
    scores_3d,          \* [frame][joint]
    all_errors,         \* [frame][joint]
    dout,               \* the table written, [frame][joint] -> its six columns
    tri_pc,             \* "start", "loaded", "filtered", "solved", "written"
    \* load_offsets_dict called on its own
    offsets_dict,       \* what it returned
    off_pc,             \* "call", "returned", "raised" (KeyError)
    \* process_session
    calibration_path,   \* what find_calibration_folder finds: "found" or "None"
    cam_videos,         \* [video name] -> the cameras of its pose files
    outputs,            \* the videos whose output table exists
    run_no,             \* the number of runs started
    run_pc,             \* "idle", "loop", "done", "skipped", "failed"
    vid_names,          \* the video names of the run, sorted
    loop_ix,            \* the place of the loop of line 247 in vid_names
    invoked,            \* the videos triangulate() was called for in this run
    run_start_outputs,  \* outputs when the run started
    prev_run,           \* how the run before this one ended
    write_count         \* [video name] -> the times its table was written

alignVars == <<ref_point, axes_spec, M, align_pc>>
pointVars == <<all_points_3d, all_points_3d_adj>>
triVars == <<config, ransac, pose_files, all_points_raw, all_scores, points_2d,
             solved, num_cams, scores_3d, all_errors, dout, tri_pc>>
offVars == <<offsets_dict, off_pc>>
sessVars == <<calibration_path, cam_videos, outputs, run_no, run_pc, vid_names, loop_ix,
              invoked, run_start_outputs, prev_run, write_count>>
vars == <<alignVars, pointVars, triVars, offVars, sessVars>>

(***************************************************************************)
(* Floats                                                                  *)
(***************************************************************************)
\* np.nan.  A float is NaN or <<n>>, so that the two never compare equal.
NaN == <<>>
Num(n) == <<n>>
IsNaN(x) == x = NaN
Val(x) == x[1]

FSub(a, b) == IF IsNaN(a) \/ IsNaN(b) THEN NaN ELSE Num(Val(a) - Val(b))
FAdd(a, b) == IF IsNaN(a) \/ IsNaN(b) THEN NaN ELSE Num(Val(a) + Val(b))
FMul(a, b) == IF IsNaN(a) \/ IsNaN(b) THEN NaN ELSE Num(Val(a) * Val(b))
FScale(k, a) == IF IsNaN(a) THEN NaN ELSE Num(k * Val(a))

NaN3 == <<NaN, NaN, NaN>>
P3(x, y, z) == <<Num(x), Num(y), Num(z)>>
VSub(u, v) == <<FSub(u[1], v[1]), FSub(u[2], v[2]), FSub(u[3], v[3])>>
VScale(s, u) == <<FMul(s, u[1]), FMul(s, u[2]), FMul(s, u[3])>>
VHasNaN(u) == \E k \in 1..3 : IsNaN(u[k])

\* np.dot(u, v)
Dot(u, v) == FAdd(FAdd(FMul(u[1], v[1]), FMul(u[2], v[2])), FMul(u[3], v[3]))

\* np.cross(u, v)
Cross(u, v) ==
    << FSub(FMul(u[2], v[3]), FMul(u[3], v[2])),
       FSub(FMul(u[3], v[1]), FMul(u[1], v[3])),
       FSub(FMul(u[1], v[2]), FMul(u[2], v[1])) >>

(***************************************************************************)
(* Sorting and the median                                                  *)
(***************************************************************************)
RECURSIVE Insert(_, _)
Insert(x, s) ==
    IF s = <<>> THEN <<x>>
    ELSE IF x <= Head(s) THEN <<x>> \o s
    ELSE <<Head(s)>> \o Insert(x, Tail(s))

RECURSIVE Sort(_)
Sort(s) == IF s = <<>> THEN <<>> ELSE Insert(Head(s), Sort(Tail(s)))

\* Twice np.median of a sequence of floats: NaN for the empty sequence (numpy
\* warns and returns nan) and when any element is NaN; the middle element of
\* the sorted values, or the mean of the two middle ones, otherwise.
Median2(s) ==
    IF s = <<>> \/ (\E i \in 1..Len(s) : IsNaN(s[i])) THEN NaN
    ELSE LET t == Sort([i \in 1..Len(s) |-> Val(s[i])])
             n == Len(t)
         IN  IF n % 2 = 1 THEN Num(2 * t[(n + 1) \div 2])
             ELSE Num(t[n \div 2] + t[n \div 2 + 1])

RECURSIVE SelectRows(_, _, _)
\* pts[~np.isnan(pts[:, 0])]: the rows of column ix whose first coordinate is
\* not NaN, in frame order.
SelectRows(points, ix, f) ==
    IF f > Len(points) THEN <<>>
    ELSE (IF IsNaN(points[f][ix][1]) THEN <<>> ELSE <<points[f][ix]>>)
         \o SelectRows(points, ix, f + 1)

\* get_median(all_points_3d, ix), doubled: per coordinate, twice the median
\* over the frames whose first coordinate is not NaN.
get_median(points, ix) ==
    LET pts == SelectRows(points, ix, 1)
        column(k) == [i \in 1..Len(pts) |-> pts[i][k]]
    IN  <<Median2(column(1)), Median2(column(2)), Median2(column(3))>>

(***************************************************************************)
(* correct_coordinate_frame                                                *)
(***************************************************************************)
\* proj(u, v) = u * np.dot(v, u) / np.dot(u, u), as the pair <<numerators,
\* denominator>>: the result is numerators / denominator.  A zero u gives
\* 0/0 = NaN in every coordinate.
proj(u, v) ==
    LET uu == Dot(u, u)
        vu == Dot(v, u)
    IN  IF IsNaN(uu) \/ IsNaN(vu) \/ Val(uu) = 0 THEN <<NaN3, 1>>
        ELSE <<VScale(vu, u), Val(uu)>>

\* ortho without the projection removed
ortho_no_projection(u, v) == <<u, 1>>

\* ortho(u, v) = u - proj(v, u), as <<numerators, denominator>>.
ortho(u, v) ==
    LET p == proj(v, u)
    IN  <<VSub(VScale(Num(p[2]), u), p[1]), p[2]>>

axes_mapping(label) == CASE label = "x" -> 1 [] label = "y" -> 2 [] label = "z" -> 3

\* np.where(~done)[0][0]: the first direction that neither axis definition names
missing_direction(a_dir, b_dir) ==
    CHOOSE c \in 1..3 : c \notin {a_dir, b_dir}
                        /\ \A d \in 1..3 : d \notin {a_dir, b_dir} => c <= d

\* One row of M: the vector v / sqrt(n2).
Row(v, n2) == [v |-> v, n2 |-> n2]

\* M /= np.linalg.norm(M, axis=1)[:, None] applied to one row.  A row with a
\* NaN, or of norm 0 (0/0), becomes NaN in every coordinate.
normalize(row) ==
    LET vv == Dot(row.v, row.v)
    IN  IF IsNaN(vv) \/ Val(vv) = 0 THEN Row(NaN3, 1) ELSE Row(row.v, Val(vv))

\* The rows of M before the normalisation (lines 58-64).  The medians are
\* doubled, so a_diff is v / 2 = v / sqrt(4); b_diff is its numerators over
\* 2 * denominator; the cross product is over 4 * denominator.
basis_rows(axes, points, bp_index) ==
    LET a_dir == axes_mapping(axes[1][1])
        b_dir == axes_mapping(axes[2][1])
        c_dir == missing_direction(a_dir, b_dir)
        a_lv  == get_median(points, bp_index[axes[1][2]])
        a_rv  == get_median(points, bp_index[axes[1][3]])
        b_lv  == get_median(points, bp_index[axes[2][2]])
        b_rv  == get_median(points, bp_index[axes[2][3]])
        a_diff == VSub(a_rv, a_lv)
        b_diff == ortho(VSub(b_rv, b_lv), a_diff)
        M0 == <<Row(P3(0, 0, 0), 1), Row(P3(0, 0, 0), 1), Row(P3(0, 0, 0), 1)>>
        M1 == [M0 EXCEPT ![a_dir] = Row(a_diff, 4)]
        M2 == [M1 EXCEPT ![b_dir] = Row(b_diff[1], 4 * b_diff[2] * b_diff[2])]
    IN  [M2 EXCEPT ![c_dir] = Row(Cross(a_diff, b_diff[1]), 16 * b_diff[2] * b_diff[2])]

\* M after line 66
basis(axes, points, bp_index) ==
    LET rows == basis_rows(axes, points, bp_index)
    IN  <<normalize(rows[1]), normalize(rows[2]), normalize(rows[3])>>

\* (all_points_3d - center).dot(M.T) for one point, center doubled: coordinate
\* k is the numerator of (2 p - 2 center) . M[k].v over 2 sqrt(M[k].n2)
rotate(p, center2, Mx) ==
    LET d == VSub(<<FScale(2, p[1]), FScale(2, p[2]), FScale(2, p[3])>>, center2)
    IN  <<Dot(d, Mx[1].v), Dot(d, Mx[2].v), Dot(d, Mx[3].v)>>

\* Lines 68-74: the points returned, coordinate k as a numerator over
\* 4 sqrt(M[k].n2).
recenter(points, ref_ix, Mx) ==
    LET center == get_median(points, ref_ix)
        adj == [f \in 1..Len(points) |->
                   [b \in 1..Len(points[f]) |-> rotate(points[f][b], center, Mx)]]
        center_new == get_median(adj, ref_ix)
    IN  [f \in 1..Len(points) |->
            [b \in 1..Len(points[f]) |->
                LET p == adj[f][b]
                IN  VSub(<<FScale(2, p[1]), FScale(2, p[2]), FScale(2, p[3])>>, center_new)]]

(***************************************************************************)
(* load_offsets_dict and load_pose2d_fnames                                *)
(***************************************************************************)
\* cam_names = sorted(fname_dict.keys())
Cams == <<"cam1", "cam2", "cam3">>
n_cams == Len(Cams)
\* bodyparts = arr(dd.columns.levels[0]) of the first file
TriBodyparts == <<"paw">>
n_joints == Len(TriBodyparts)

\* load_offsets_dict(config, cam_names, video_folder): cfg is the config, a
\* function from its section names; cfg["cameras"] is a function from the
\* cameras listed to their sections, each a function from its keys.
\* Line 131: the camera is listed in the 'cameras' section
camera_listed(cfg, cname) == "cameras" \in DOMAIN cfg /\ cname \in DOMAIN cfg["cameras"]

\* Line 135 raises KeyError: a camera that is listed is looked up with
\* ['offset'], and its section has no such key
load_offsets_raises(cfg, cam_names) ==
    \E c \in 1..Len(cam_names) :
        camera_listed(cfg, cam_names[c]) /\ "offset" \notin DOMAIN cfg["cameras"][cam_names[c]]

\* the offsets_dict returned when nothing raises, by the place of the camera
\* in cam_names
load_offsets_dict(cfg, cam_names) ==
    [c \in 1..Len(cam_names) |->
        IF camera_listed(cfg, cam_names[c])
        THEN cfg["cameras"][cam_names[c]]["offset"]
        ELSE <<0, 0>>]

Max(S) == CHOOSE x \in S : \A y \in S : y <= x

\* length = the largest frame index of any file, plus 1 (lines 79-85)
pose_length(files) ==
    Max({Max(DOMAIN files[c]) + 1 : c \in DOMAIN files})

\* load_pose2d_fnames, out['points']: zeros (line 93), and at the frames a
\* file has, its x and y plus the camera's offset (line 105).  Frames are
\* numbered from 0.
load_points(files, offsets) ==
    [f \in 0..pose_length(files) - 1 |->
        [c \in DOMAIN files |->
            [j \in 1..n_joints |->
                IF f \in DOMAIN files[c]
                THEN <<Num(files[c][f][j][1] + offsets[c][1]),
                       Num(files[c][f][j][2] + offsets[c][2])>>
                ELSE <<Num(0), Num(0)>>]]]

\* load_pose2d_fnames, out['scores']: zeros (line 94), and the likelihood
\* column at the frames a file has (line 106).  Scores are in tenths.
load_scores(files) ==
    [f \in 0..pose_length(files) - 1 |->
        [c \in DOMAIN files |->
            [j \in 1..n_joints |->
                IF f \in DOMAIN files[c] THEN files[c][f][j][3] ELSE 0]]]

(***************************************************************************)
(* triangulate                                                             *)
(***************************************************************************)
\* the threshold 0.7 of line 162, in tenths
ScoreThreshold == 7
\* the score 2 written at line 188, in tenths
Sentinel == 20
\* the support below which a point is masked (lines 191-193)
MinSupport == 2

NaN2 == <<NaN, NaN>>

\* the filter with <= in place of <
filter_points_incl(points, scores) ==
    [f \in DOMAIN points |->
        [c \in DOMAIN points[f] |->
            [j \in DOMAIN points[f][c] |->
                IF scores[f][c][j] <= ScoreThreshold THEN NaN2 ELSE points[f][c][j]]]]

\* all_points_raw[all_scores < 0.7] = np.nan
filter_points(points, scores) ==
    [f \in DOMAIN points |->
        [c \in DOMAIN points[f] |->
            [j \in DOMAIN points[f][c] |->
                IF scores[f][c][j] < ScoreThreshold THEN NaN2 ELSE points[f][c][j]]]]

\* The place of (frame, joint) in the flat layout of
\* swapaxes(0, 1).reshape(n_cams, n_frames * n_joints, 2), and back
flat(f, j) == f * n_joints + (j - 1)
flat_frame(ip) == ip \div n_joints
flat_joint(ip) == (ip % n_joints) + 1

\* points_2d of line 165
flatten(points) ==
    LET n_frames == Cardinality(DOMAIN points)
    IN  [c \in 1..n_cams |->
            [ip \in 0..n_frames * n_joints - 1 |-> points[flat_frame(ip)][c][flat_joint(ip)]]]

\* .reshape(n_cams, n_frames, n_joints, 2).swapaxes(0, 1) of line 171
unflatten(p2ds, n_frames) ==
    [f \in 0..n_frames - 1 |->
        [c \in 1..n_cams |-> [j \in 1..n_joints |-> p2ds[c][flat(f, j)]]]]

\* ~np.isnan(points[:, :, :, 0])
good_points_of(points) ==
    [f \in DOMAIN points |->
        [c \in DOMAIN points[f] |->
            [j \in DOMAIN points[f][c] |-> ~IsNaN(points[f][c][j][1])]]]

\* the cameras whose observation of flat point ip is defined
views(p2d, ip) == {c \in DOMAIN p2d : ~IsNaN(p2d[c][ip][1])}

\* the scores left as they are, without the sentinel
mark_scores_none(scores, good) == scores

\* all_scores[~good_points] = 2 (line 188)
mark_scores(scores, good) ==
    [f \in DOMAIN scores |->
        [c \in DOMAIN scores[f] |->
            [j \in DOMAIN scores[f][c] |->
                IF good[f][c][j] THEN scores[f][c][j] ELSE Sentinel]]]

Min(S) == CHOOSE x \in S : \A y \in S : x <= y

\* np.min(all_scores, axis=1)
min_scores(scores) ==
    [f \in DOMAIN scores |->
        [j \in 1..n_joints |-> Min({scores[f][c][j] : c \in DOMAIN scores[f]})]]

\* the mask with <= in place of <
mask_low_support_incl(x, num) ==
    [f \in DOMAIN x |->
        [j \in DOMAIN x[f] |-> IF num[f][j] <= MinSupport THEN NaN ELSE x[f][j]]]

\* x[num_cams < 2] = np.nan (lines 191-193), for x a [frame][joint] array of
\* numbers
mask_low_support(x, num) ==
    [f \in DOMAIN x |->
        [j \in DOMAIN x[f] |-> IF num[f][j] < MinSupport THEN NaN ELSE x[f][j]]]

(***************************************************************************)
(* The solver, cgroup: an external provider.  It is modelled by what the   *)
(* code relies on: a point seen by two or more cameras gets a defined 3-D  *)
(* position and a defined error; for a point seen by fewer, the provider   *)
(* may return NaN or numbers, and which one is the caller's choice of      *)
(* junk3d and junkErr.  The robust solver keeps, for each point, a subset  *)
(* kept[ip] of the cameras that observe it.                                *)
(***************************************************************************)
solved_point(ip, n) == P3(ip + 1, n, 1)
solved_error(n) == Num(n + 3)

\* cgroup.triangulate(points_2d) and cgroup.reprojection_error(points_3d,
\* points_2d, mean=True), lines 180-181
cgroup_triangulate(p2d, junk3d, junkErr) ==
    [points_3d |-> [ip \in DOMAIN p2d[1] |->
                       LET n == Cardinality(views(p2d, ip))
                       IN  IF n >= 2 THEN solved_point(ip, n)
                           ELSE IF junk3d THEN P3(0, 0, 0) ELSE NaN3],
     errors    |-> [ip \in DOMAIN p2d[1] |->
                       LET n == Cardinality(views(p2d, ip))
                       IN  IF n >= 2 THEN solved_error(n)
                           ELSE IF junkErr THEN Num(0) ELSE NaN]]

\* cgroup.triangulate_ransac(points_2d, min_cams=3), lines 168-169: picked
\* counts, per camera and point, the picks of that camera; p2ds holds the
\* observations kept.
cgroup_triangulate_ransac(p2d, kept, junk3d, junkErr) ==
    [points_3d |-> [ip \in DOMAIN p2d[1] |->
                       LET n == Cardinality(kept[ip])
                       IN  IF n >= 2 THEN solved_point(ip, n)
                           ELSE IF junk3d THEN P3(0, 0, 0) ELSE NaN3],
     errors    |-> [ip \in DOMAIN p2d[1] |->
                       LET n == Cardinality(kept[ip])
                       IN  IF n >= 2 THEN solved_error(n)
                           ELSE IF junkErr THEN Num(0) ELSE NaN],
     picked    |-> [c \in DOMAIN p2d |->
                       [ip \in DOMAIN p2d[c] |-> IF c \in kept[ip] THEN 1 ELSE 0]],
     p2ds      |-> [c \in DOMAIN p2d |->
                       [ip \in DOMAIN p2d[c] |-> IF c \in kept[ip] THEN p2d[c][ip] ELSE NaN2]]]

(***************************************************************************)
(* triangulate as a state machine.  The config of the video has no         *)
(* 'reference_point', so line 198 passes the points through.               *)
(***************************************************************************)
\* the frame numbers the pose files of the video may have rows for
TriFrames == {0, 1}

\* the rows a pose file may hold for a bodypart: <<x, y, likelihood>>
Detections == {<<3, 4, 6>>, <<3, 4, 7>>, <<5, 2, 9>>}

\* the pose files a camera may have: rows at a non-empty set of frame numbers
PoseFiles ==
    UNION {[idx -> [1..n_joints -> Detections]] :
              idx \in SUBSET TriFrames \ {{}}}

\* a config without a 'cameras' section
EmptyConfig == <<>>
\* the config of the video: cam1 is cropped, the other cameras are not listed
TriConfig == [s \in {"cameras"} |-> [c \in {"cam1"} |-> [k \in {"offset"} |-> <<2, 1>>]]]

NoTable == <<>>
NoArray == <<>>

TriIdle ==
    /\ config = EmptyConfig
    /\ ransac = FALSE
    /\ pose_files = <<>>
    /\ all_points_raw = NoArray
    /\ all_scores = NoArray
    /\ points_2d = NoArray
    /\ solved = NoArray
    /\ num_cams = NoArray
    /\ scores_3d = NoArray
    /\ all_errors = NoArray
    /\ dout = NoTable
    /\ tri_pc = "idle"

OffIdle ==
    /\ offsets_dict = <<>>
    /\ off_pc = "idle"

SessIdle ==
    /\ calibration_path = "None"
    /\ cam_videos = <<>>
    /\ outputs = {}
    /\ run_no = 0
    /\ run_pc = "off"
    /\ vid_names = <<>>
    /\ loop_ix = 0
    /\ invoked = <<>>
    /\ run_start_outputs = {}
    /\ prev_run = "none"
    /\ write_count = <<>>

AlignIdle ==
    /\ ref_point = "none"
    /\ axes_spec = <<>>
    /\ M = <<>>
    /\ align_pc = "idle"

TriInit ==
    /\ config = TriConfig
    /\ ransac \in BOOLEAN
    /\ pose_files \in [1..n_cams -> PoseFiles]
    /\ all_points_raw = NoArray
    /\ all_scores = NoArray
    /\ points_2d = NoArray
    /\ solved = NoArray
    /\ num_cams = NoArray
    /\ scores_3d = NoArray
    /\ all_errors = NoArray
    /\ dout = NoTable
    /\ tri_pc = "start"
    /\ all_points_3d = NoArray
    /\ all_points_3d_adj = NoArray
    /\ AlignIdle /\ OffIdle /\ SessIdle

\* lines 146-159
LoadPose ==
    /\ tri_pc = "start"
    /\ LET offsets == load_offsets_dict(config, Cams)
       IN  /\ all_points_raw' = load_points(pose_files, offsets)
           /\ all_scores' = load_scores(pose_files)
    /\ tri_pc' = "loaded"
    /\ UNCHANGED <<config, ransac, pose_files, points_2d, solved, num_cams,
                   scores_3d, all_errors, dout, pointVars, alignVars, offVars, sessVars>>

\* lines 161-165
FilterScores ==
    /\ tri_pc = "loaded"
    /\ all_points_raw' = filter_points(all_points_raw, all_scores)
    /\ points_2d' = flatten(all_points_raw')
    /\ tri_pc' = "filtered"
    /\ UNCHANGED <<config, ransac, pose_files, all_scores, solved, num_cams,
                   scores_3d, all_errors, dout, pointVars, alignVars, offVars, sessVars>>

\* lines 180-181
SolveDirect ==
    /\ tri_pc = "filtered"
    /\ ~ransac
    /\ \E junk3d \in BOOLEAN, junkErr \in BOOLEAN :
           solved' = cgroup_triangulate(points_2d, junk3d, junkErr)
    /\ tri_pc' = "solved"
    /\ UNCHANGED <<config, ransac, pose_files, all_points_raw, all_scores, points_2d,
                   num_cams, scores_3d, all_errors, dout, pointVars, alignVars, offVars, sessVars>>

\* lines 168-169
SolveRansac ==
    /\ tri_pc = "filtered"
    /\ ransac
    /\ \E junk3d \in BOOLEAN, junkErr \in BOOLEAN :
       \E kept \in [DOMAIN points_2d[1] -> SUBSET (1..n_cams)] :
           /\ \A ip \in DOMAIN kept : kept[ip] \subseteq views(points_2d, ip)
           /\ solved' = cgroup_triangulate_ransac(points_2d, kept, junk3d, junkErr)
    /\ tri_pc' = "solved"
    /\ UNCHANGED <<config, ransac, pose_files, all_points_raw, all_scores, points_2d,
                   num_cams, scores_3d, all_errors, dout, pointVars, alignVars, offVars, sessVars>>

\* good_points: line 174 in robust mode, line 182 in direct mode
good_points ==
    IF ransac
    THEN good_points_of(unflatten(solved.p2ds, Cardinality(DOMAIN all_points_raw)))
    ELSE good_points_of(all_points_raw)

\* the support count: lines 176-178 in robust mode, line 183 in direct mode
support_count ==
    [f \in DOMAIN all_points_raw |->
        [j \in 1..n_joints |->
            IF ransac
            THEN Cardinality({c \in 1..n_cams : solved.picked[c][flat(f, j)] = 1})
            ELSE Cardinality({c \in 1..n_cams : good_points[f][c][j]})]]

\* one row of the table, lines 201-206
table_row(p, error, ncams, score) ==
    [x |-> p[1], y |-> p[2], z |-> p[3], error |-> error, ncams |-> ncams, score |-> score]

\* lines 185-210
Aggregate ==
    /\ tri_pc = "solved"
    /\ all_points_3d' = [f \in DOMAIN all_points_raw |->
                            [j \in 1..n_joints |-> solved.points_3d[flat(f, j)]]]
    /\ all_scores' = mark_scores(all_scores, good_points)
    /\ LET errors == [f \in DOMAIN all_points_raw |->
                         [j \in 1..n_joints |-> solved.errors[flat(f, j)]]]
           mins == min_scores(all_scores')
       IN  /\ scores_3d' = mask_low_support(
                               [f \in DOMAIN mins |-> [j \in DOMAIN mins[f] |-> Num(mins[f][j])]],
                               support_count)
           /\ all_errors' = mask_low_support(errors, support_count)
           /\ num_cams' = mask_low_support(
                               [f \in DOMAIN mins |->
                                   [j \in DOMAIN mins[f] |-> Num(support_count[f][j])]],
                               support_count)
    /\ all_points_3d_adj' = all_points_3d'
    /\ dout' = [f \in DOMAIN all_points_raw |->
                   [j \in 1..n_joints |->
                       table_row(all_points_3d_adj'[f][j], all_errors'[f][j],
                                 num_cams'[f][j], scores_3d'[f][j])]]
    /\ tri_pc' = "written"
    /\ UNCHANGED <<config, ransac, pose_files, all_points_raw, points_2d, solved, alignVars,
                   offVars, sessVars>>

TriNext == LoadPose \/ FilterScores \/ SolveDirect \/ SolveRansac \/ Aggregate

SpecTriangulate == TriInit /\ [][TriNext]_vars

(***************************************************************************)
(* The alignment as a state machine: the inputs are drawn in the initial   *)
(* state, CorrectCoordinateFrame is the call at line 196 and WriteTable    *)
(* is lines 200-210.                                                       *)
(***************************************************************************)
NumRows == 2

\* bodyparts of the aligned video, in column order
AlignBodyparts == <<"A", "B", "C">>
bp_index == [b \in {"A", "B", "C"} |-> CASE b = "A" -> 1 [] b = "B" -> 2 [] b = "C" -> 3]

\* The 3-D points the solver may have produced for each bodypart on a frame
PointPool(b) ==
    CASE b = 1 -> {NaN3, P3(0, 0, 0), P3(1, 0, 1)}
      [] b = 2 -> {NaN3, P3(2, 0, 0)}
      [] b = 3 -> {NaN3, P3(2, 0, 0), P3(1, 1, 0)}

AxisLabels == {"x", "y", "z"}
\* the reference points a config may name; "Z" is no bodypart of the video
RefPoints == {"A", "Z"}

NoBasis == <<Row(NaN3, 1), Row(NaN3, 1), Row(NaN3, 1)>>
NoPoints == <<>>

AlignInit ==
    /\ ref_point \in RefPoints
    /\ axes_spec \in {<<<<la, "A", "B">>, <<lb, "A", "C">>>> : la \in AxisLabels, lb \in AxisLabels}
    /\ all_points_3d \in [1..NumRows -> {p \in [1..3 -> UNION {PointPool(b) : b \in 1..3}] :
                                            \A b \in 1..3 : p[b] \in PointPool(b)}]
    /\ M = NoBasis
    /\ all_points_3d_adj = NoPoints
    /\ align_pc = "call"
    /\ TriIdle /\ OffIdle /\ SessIdle

\* correct_coordinate_frame(config, all_points_3d, bodyparts): bp_index[ref_point]
\* at line 68 raises KeyError for a name that is no bodypart, after M is built;
\* nothing else in the function raises.
CorrectCoordinateFrame ==
    /\ align_pc = "call"
    /\ M' = basis(axes_spec, all_points_3d, bp_index)
    /\ IF ref_point \notin DOMAIN bp_index
       THEN /\ align_pc' = "raised"
            /\ UNCHANGED all_points_3d_adj
       ELSE /\ align_pc' = "returned"
            /\ all_points_3d_adj' = recenter(all_points_3d, bp_index[ref_point], M')
    /\ UNCHANGED <<ref_point, axes_spec, all_points_3d, triVars, offVars, sessVars>>

\* lines 200-210: the table is built from all_points_3d_adj and written
WriteTable ==
    /\ align_pc = "returned"
    /\ align_pc' = "written"
    /\ UNCHANGED <<ref_point, axes_spec, all_points_3d, M, all_points_3d_adj, triVars,
                   offVars, sessVars>>

AlignNext == CorrectCoordinateFrame \/ WriteTable

SpecAlign == AlignInit /\ [][AlignNext]_vars

(***************************************************************************)
(* load_offsets_dict as a state machine: the config is drawn in the        *)
(* initial state and LoadOffsets is the call with the cameras Cams.        *)
(***************************************************************************)
\* the offsets a config may give a camera
Offsets == {<<2, 1>>, <<0, 5>>}

\* the section of a camera: without keys, or with an offset
CameraSections == {<<>>} \cup {[k \in {"offset"} |-> o] : o \in Offsets}

\* the configs: without a 'cameras' section, or with one that lists some of
\* the cameras
OffsetConfigs ==
    {EmptyConfig} \cup
    UNION {{[s \in {"cameras"} |-> sec] : sec \in [listed -> CameraSections]} :
              listed \in SUBSET {Cams[c] : c \in 1..n_cams}}

OffInit ==
    /\ config \in OffsetConfigs
    /\ offsets_dict = <<>>
    /\ off_pc = "call"
    /\ ransac = FALSE
    /\ pose_files = <<>>
    /\ all_points_raw = NoArray
    /\ all_scores = NoArray
    /\ points_2d = NoArray
    /\ solved = NoArray
    /\ num_cams = NoArray
    /\ scores_3d = NoArray
    /\ all_errors = NoArray
    /\ dout = NoTable
    /\ tri_pc = "idle"
    /\ all_points_3d = NoArray
    /\ all_points_3d_adj = NoArray
    /\ AlignIdle /\ SessIdle

LoadOffsets ==
    /\ off_pc = "call"
    /\ IF load_offsets_raises(config, Cams)
       THEN off_pc' = "raised" /\ UNCHANGED offsets_dict
       ELSE off_pc' = "returned" /\ offsets_dict' = load_offsets_dict(config, Cams)
    /\ UNCHANGED <<alignVars, pointVars, triVars, sessVars>>

OffNext == LoadOffsets

SpecOffsets == OffInit /\ [][OffNext]_vars

(***************************************************************************)
(* process_session as a state machine: runs of the batch over one session. *)
(* StartRun is lines 213-245, SkipExisting and Triangulate are one turn of *)
(* the loop of lines 247-260.                                              *)
(***************************************************************************)
MaxRuns == 2

\* the names a video of the session may have
VideoNames == {"vid1", "vid2", "vid10"}

\* natural_keys(name) of common.py: the number in the name; the text before
\* it is the same in every name of VideoNames
natural_keys(name) == CASE name = "vid1" -> 1 [] name = "vid2" -> 2 [] name = "vid10" -> 10

RECURSIVE sorted_by(_)
\* sorted(S, key=natural_keys), line 242
sorted_by(S) ==
    IF S = {} THEN <<>>
    ELSE LET first == CHOOSE x \in S : \A y \in S : natural_keys(x) <= natural_keys(y)
         IN  <<first>> \o sorted_by(S \ {first})

\* an existence check that never finds the table
output_exists_never(name, existing) == FALSE

\* os.path.exists(output_fname), line 255
output_exists(name, existing) == name \in existing

\* the cameras the pose files of a video may come from
CamSets == {<<"cam1", "cam2">>, <<"cam2", "cam3">>}

\* the configs of a session: no 'cameras' section, cam1 with an offset, cam1
\* listed without one
SessionConfigs ==
    {EmptyConfig,
     [s \in {"cameras"} |-> [c \in {"cam1"} |-> [k \in {"offset"} |-> <<2, 1>>]]],
     [s \in {"cameras"} |-> [c \in {"cam1"} |-> <<>>]]}

SessInit ==
    /\ config \in SessionConfigs
    /\ calibration_path \in {"found", "None"}
    /\ cam_videos \in UNION {[vs -> CamSets] : vs \in SUBSET VideoNames}
    /\ outputs \in SUBSET (DOMAIN cam_videos)
    /\ run_no = 0
    /\ run_pc = "idle"
    /\ vid_names = <<>>
    /\ loop_ix = 0
    /\ invoked = <<>>
    /\ run_start_outputs = outputs
    /\ prev_run = "none"
    /\ write_count = [v \in DOMAIN cam_videos |-> 0]
    /\ ransac = FALSE
    /\ pose_files = <<>>
    /\ all_points_raw = NoArray
    /\ all_scores = NoArray
    /\ points_2d = NoArray
    /\ solved = NoArray
    /\ num_cams = NoArray
    /\ scores_3d = NoArray
    /\ all_errors = NoArray
    /\ dout = NoTable
    /\ tri_pc = "idle"
    /\ all_points_3d = NoArray
    /\ all_points_3d_adj = NoArray
    /\ AlignIdle /\ OffIdle

\* lines 213-245: without a calibration folder the run returns at once;
\* otherwise the videos are discovered and sorted
StartRun ==
    /\ run_pc # "loop"
    /\ run_no < MaxRuns
    /\ run_no' = run_no + 1
    /\ prev_run' = run_pc
    /\ run_start_outputs' = outputs
    /\ invoked' = <<>>
    /\ IF calibration_path = "None"
       THEN /\ run_pc' = "skipped"
            /\ vid_names' = <<>>
            /\ loop_ix' = 0
       ELSE /\ vid_names' = sorted_by(DOMAIN cam_videos)
            /\ loop_ix' = 1
            /\ run_pc' = IF vid_names' = <<>> THEN "done" ELSE "loop"
    /\ UNCHANGED <<config, calibration_path, cam_videos, outputs, write_count>>
    /\ UNCHANGED <<ransac, pose_files, all_points_raw, all_scores, points_2d, solved,
                   num_cams, scores_3d, all_errors, dout, tri_pc>>
    /\ UNCHANGED <<alignVars, pointVars, offVars>>

\* the loop moves to the next video, or the run ends after the last
next_turn ==
    /\ loop_ix' = loop_ix + 1
    /\ run_pc' = IF loop_ix + 1 > Len(vid_names) THEN "done" ELSE "loop"

\* lines 255-256: the output exists, continue
SkipExisting ==
    /\ run_pc = "loop"
    /\ output_exists(vid_names[loop_ix], outputs)
    /\ next_turn
    /\ UNCHANGED <<config, calibration_path, cam_videos, outputs, run_no, vid_names,
                   invoked, run_start_outputs, prev_run, write_count>>
    /\ UNCHANGED <<ransac, pose_files, all_points_raw, all_scores, points_2d, solved,
                   num_cams, scores_3d, all_errors, dout, tri_pc>>
    /\ UNCHANGED <<alignVars, pointVars, offVars>>

\* lines 258-260: triangulate() is called; the KeyError of load_offsets_dict
\* ends the run, otherwise the table of the video is written (line 210)
Triangulate ==
    /\ run_pc = "loop"
    /\ ~output_exists(vid_names[loop_ix], outputs)
    /\ LET name == vid_names[loop_ix]
       IN  /\ invoked' = Append(invoked, name)
           /\ IF load_offsets_raises(config, cam_videos[name])
              THEN /\ run_pc' = "failed"
                   /\ UNCHANGED <<outputs, write_count, loop_ix>>
              ELSE /\ outputs' = outputs \cup {name}
                   /\ write_count' = [write_count EXCEPT ![name] = @ + 1]
                   /\ next_turn
    /\ UNCHANGED <<config, calibration_path, cam_videos, run_no, vid_names,
                   run_start_outputs, prev_run>>
    /\ UNCHANGED <<ransac, pose_files, all_points_raw, all_scores, points_2d, solved,
                   num_cams, scores_3d, all_errors, dout, tri_pc>>
    /\ UNCHANGED <<alignVars, pointVars, offVars>>

SessNext == StartRun \/ SkipExisting \/ Triangulate

SpecSession == SessInit /\ [][SessNext]_vars

(***************************************************************************)
(* Claims about correct_coordinate_frame                                   *)
(***************************************************************************)
Returned == align_pc \in {"returned", "written"}
BasisBuilt == align_pc # "call"
a_dir_of == axes_mapping(axes_spec[1][1])
b_dir_of == axes_mapping(axes_spec[2][1])
DistinctLabels == axes_spec[1][1] # axes_spec[2][1]
AxisLandmarks == {axes_spec[1][2], axes_spec[1][3], axes_spec[2][2], axes_spec[2][3]}
\* bodypart b is NaN on every frame of the input
Unobserved(b) == \A f \in 1..Len(all_points_3d) : IsNaN(all_points_3d[f][bp_index[b]][1])
MediansDefined == \A b \in AxisLandmarks : ~VHasNaN(get_median(all_points_3d, bp_index[b]))
in_a_diff == VSub(get_median(all_points_3d, bp_index[axes_spec[1][3]]),
                  get_median(all_points_3d, bp_index[axes_spec[1][2]]))
in_b_diff == VSub(get_median(all_points_3d, bp_index[axes_spec[2][3]]),
                  get_median(all_points_3d, bp_index[axes_spec[2][2]]))
\* the two difference vectors are defined, non-zero and not parallel
Independent == /\ MediansDefined
               /\ in_a_diff # P3(0, 0, 0)
               /\ Cross(in_a_diff, in_b_diff) # P3(0, 0, 0)
\* the rows of Mx are pairwise orthogonal and each has norm 1
Orthonormal(Mx) ==
    /\ \A i \in 1..3 : ~VHasNaN(Mx[i].v) /\ Dot(Mx[i].v, Mx[i].v) = Num(Mx[i].n2)
    /\ \A i, j \in 1..3 : i # j => Dot(Mx[i].v, Mx[j].v) = Num(0)
\* the determinant of the rows' numerators: its sign is that of det(M)
Det(Mx) == Dot(Cross(Mx[1].v, Mx[2].v), Mx[3].v)
BasisDefined == \A i \in 1..3 : ~VHasNaN(M[i].v)

\* C4: correct_coordinate_frame fails, and no table is written, whenever a
\* landmark named in an axis definition is NaN on every frame: the call never
\* returns a point set for such an input.
C4_FailsOnUnobservedAxisLandmark ==
    (\E b \in AxisLandmarks : Unobserved(b)) => ~Returned

\* C6 as claimed: whenever the four axis landmarks have defined medians, the
\* rows of M are pairwise orthogonal with norm 1, for every axes specification.
C6_OrthonormalForEveryInput ==
    (BasisBuilt /\ MediansDefined) => Orthonormal(M)

\* C6 amended: when the two axis labels are distinct and the two difference
\* vectors are non-zero and not parallel, the rows of M are pairwise
\* orthogonal with norm 1, and the second difference vector after ortho() has
\* a zero dot product with the first and is not the zero vector.
C6_OrthonormalWhenIndependent ==
    (BasisBuilt /\ DistinctLabels /\ Independent) =>
        /\ Orthonormal(M)
        /\ Dot(M[b_dir_of].v, in_a_diff) = Num(0)
        /\ M[b_dir_of].v # P3(0, 0, 0)
        /\ Dot(ortho(in_b_diff, in_a_diff)[1], in_a_diff) = Num(0)

\* A basis was built from two independent difference vectors that were not
\* orthogonal to begin with, so ortho() had a projection to remove.
C6_Witness ==
    /\ BasisBuilt /\ DistinctLabels /\ Independent
    /\ Dot(in_a_diff, in_b_diff) \notin {NaN, Num(0)}
    /\ Orthonormal(M)

\* C7: whenever the reference landmark is defined on at least one frame, its
\* median over the non-NaN frames of the returned points is the origin.
C7_ReferenceAtOrigin ==
    (Returned /\ \E f \in 1..Len(all_points_3d) :
                     ~IsNaN(all_points_3d[f][bp_index[ref_point]][1]))
        => get_median(all_points_3d_adj, bp_index[ref_point]) = P3(0, 0, 0)

\* C10: for two distinct axis labels, in either order, a basis that is
\* defined is right-handed: its determinant is positive.
C10_RightHanded ==
    (BasisBuilt /\ DistinctLabels /\ BasisDefined) =>
        (~IsNaN(Det(M)) /\ Val(Det(M)) > 0)

(***************************************************************************)
(* Claims about triangulate                                                *)
(***************************************************************************)
Written == tri_pc = "written"
TableFrames == DOMAIN dout
\* the cameras that contribute to point (f, j): those whose observation is
\* defined in the solver's input, or, in robust mode, those the solver kept
Contributing(f, j) ==
    IF ransac THEN {c \in 1..n_cams : solved.picked[c][flat(f, j)] = 1}
    ELSE {c \in 1..n_cams : ~IsNaN(points_2d[c][flat(f, j)][1])}
Support(f, j) == Cardinality(Contributing(f, j))
\* the confidence the pose file of camera c gives point (f, j); 0 at a frame
\* the file has no row for
InputScore(f, c, j) == IF f \in DOMAIN pose_files[c] THEN pose_files[c][f][j][3] ELSE 0

\* C1: in the table written, in direct and in robust mode, a point with a
\* support count below 2 has error, score and ncams all NaN, and a point with
\* a support count of 2 or more has all three defined, ncams being the count.
C1_SupportGating ==
    Written =>
        \A f \in TableFrames : \A j \in 1..n_joints :
            LET row == dout[f][j]
            IN  /\ Support(f, j) < 2 =>
                       IsNaN(row.error) /\ IsNaN(row.score) /\ IsNaN(row.ncams)
                /\ Support(f, j) >= 2 =>
                       /\ ~IsNaN(row.error) /\ ~IsNaN(row.score)
                       /\ row.ncams = Num(Support(f, j))

\* A table was written in robust mode with a point of support 1 whose error
\* the solver had defined, and a point of support 2 beside a camera that does
\* not contribute.
C1_Witness ==
    /\ Written /\ ransac
    /\ \E f \in TableFrames : Support(f, 1) = 1 /\ ~IsNaN(solved.errors[flat(f, 1)])
                               /\ IsNaN(dout[f][1].error)
    /\ \E f \in TableFrames : Support(f, 1) = 2 /\ dout[f][1].ncams = Num(2)

\* C2: the filter step leaves NaN in both coordinates of every entry whose
\* confidence is below 0.7, among them the entries of the frames a camera has
\* no row for, hands every other entry to the solver unchanged, and changes
\* no confidence.
C2_ConfidenceFilter ==
    [][(tri_pc = "loaded" /\ tri_pc' = "filtered") =>
          /\ all_scores' = all_scores
          /\ \A f \in DOMAIN all_scores : \A c \in 1..n_cams : \A j \in 1..n_joints :
                 /\ all_scores[f][c][j] < ScoreThreshold =>
                        points_2d'[c][flat(f, j)] = NaN2
                 /\ all_scores[f][c][j] >= ScoreThreshold =>
                        /\ points_2d'[c][flat(f, j)] = all_points_raw[f][c][j]
                        /\ ~IsNaN(points_2d'[c][flat(f, j)][1])
                 /\ f \notin DOMAIN pose_files[c] => points_2d'[c][flat(f, j)] = NaN2
      ]_vars

\* The filter has run on a video in which a camera has no row for a frame,
\* one entry is just below the threshold and one is exactly on it.
C2_Witness ==
    /\ tri_pc = "filtered"
    /\ \E f \in DOMAIN all_scores : \E c \in 1..n_cams :
           f \notin DOMAIN pose_files[c] /\ points_2d[c][flat(f, 1)] = NaN2
    /\ \E f \in DOMAIN all_scores : \E c \in 1..n_cams :
           all_scores[f][c][1] = ScoreThreshold - 1 /\ points_2d[c][flat(f, 1)] = NaN2
    /\ \E f \in DOMAIN all_scores : \E c \in 1..n_cams :
           all_scores[f][c][1] = ScoreThreshold /\ points_2d[c][flat(f, 1)] # NaN2

\* C3: in direct mode, a landmark seen above the threshold by only one camera
\* on every frame has NaN _ncams, _x, _y and _z on every row, whatever the
\* solver returned for it, and a landmark seen by two or more cameras on
\* every frame has all six columns defined on every row.
C3_UnobservedPositionsUnknown ==
    (Written /\ ~ransac) =>
        \A j \in 1..n_joints :
            /\ (\A f \in TableFrames : Support(f, j) = 1) =>
                   \A f \in TableFrames :
                       /\ IsNaN(dout[f][j].ncams)
                       /\ IsNaN(dout[f][j].x) /\ IsNaN(dout[f][j].y) /\ IsNaN(dout[f][j].z)
            /\ (\A f \in TableFrames : Support(f, j) >= 2) =>
                   \A f \in TableFrames :
                       /\ ~IsNaN(dout[f][j].x) /\ ~IsNaN(dout[f][j].y) /\ ~IsNaN(dout[f][j].z)
                       /\ ~IsNaN(dout[f][j].error) /\ ~IsNaN(dout[f][j].ncams)
                       /\ ~IsNaN(dout[f][j].score)

\* C9: for a point with a support count of 2 or more, the score written is
\* the minimum of the input confidences of the contributing cameras; it is
\* never the sentinel 2 and never below the threshold 0.7.
C9_ScoreIsMinOverContributing ==
    Written =>
        \A f \in TableFrames : \A j \in 1..n_joints :
            Support(f, j) >= 2 =>
                /\ dout[f][j].score = Num(Min({InputScore(f, c, j) : c \in Contributing(f, j)}))
                /\ dout[f][j].score # Num(Sentinel)
                /\ Val(dout[f][j].score) >= ScoreThreshold

\* A point has two contributing cameras and a third camera that does not
\* contribute and whose confidence is lower than theirs, in robust mode where
\* the solver dropped a camera that passed the filter, and in direct mode.
C9_Witness ==
    /\ Written
    /\ \E f \in TableFrames : \E c \in 1..n_cams :
           /\ Support(f, 1) = 2 /\ c \notin Contributing(f, 1)
           /\ InputScore(f, c, 1) < Val(dout[f][1].score)
           /\ \E d, e \in Contributing(f, 1) : InputScore(f, d, 1) # InputScore(f, e, 1)

(***************************************************************************)
(* Claims about load_offsets_dict and process_session                      *)
(***************************************************************************)
\* the config specifies an offset for camera cname
OffsetSpecified(cname) ==
    /\ "cameras" \in DOMAIN config
    /\ cname \in DOMAIN config["cameras"]
    /\ "offset" \in DOMAIN config["cameras"][cname]

\* C8: load_offsets_dict returns, for every config, an offset for every
\* camera: the configured one when the config specifies it, and (0, 0) when
\* there is no 'cameras' section, when the camera is not listed, and when it
\* is listed without an offset.
C8_OffsetDefaulting ==
    off_pc \in {"returned", "raised"} =>
        /\ off_pc = "returned"
        /\ \A c \in 1..n_cams :
               offsets_dict[c] = IF OffsetSpecified(Cams[c])
                                 THEN config["cameras"][Cams[c]]["offset"]
                                 ELSE <<0, 0>>

Range(seq) == {seq[i] : i \in 1..Len(seq)}
\* the videos discovered whose output did not exist when the run started
Pending == {v \in DOMAIN cam_videos : v \notin run_start_outputs}
NaturalOrder(seq) ==
    \A i, k \in 1..Len(seq) : i < k => natural_keys(seq[i]) < natural_keys(seq[k])

\* what holds of a run at every point of it
RunInvariant ==
    /\ Range(invoked) \subseteq Pending
    /\ NaturalOrder(invoked)
    /\ \A v \in Pending \ Range(invoked) :
           \A w \in Range(invoked) : natural_keys(w) < natural_keys(v)
    /\ run_pc = "done" => Range(invoked) = Pending
    /\ run_pc = "skipped" => invoked = <<>>
    /\ (run_no >= 2 /\ prev_run \in {"done", "skipped"}) =>
           invoked = <<>> /\ outputs = run_start_outputs /\ run_pc # "failed"
    /\ \A v \in DOMAIN cam_videos : write_count[v] <= 1

\* C5: over any sequence of runs, a table that exists is never written again
\* and triangulate() is not called for its video; a run calls triangulate()
\* for the discovered videos whose output did not exist, in natural order,
\* for all of them when it ends normally; a run after a run that ended
\* normally calls it for no video, changes no output and does not fail.
C5_WriteOnceBatch ==
    [][/\ \A v \in outputs : v \in outputs' /\ write_count'[v] = write_count[v]
       /\ Len(invoked') > Len(invoked) => invoked'[Len(invoked')] \notin outputs
       /\ RunInvariant'
      ]_vars

\* A second run has ended after a first run that ended normally, in a session
\* where the first run skipped vid1 and wrote vid2 before vid10.
C5_Witness ==
    /\ run_no = 2 /\ prev_run = "done" /\ run_pc = "done"
    /\ DOMAIN cam_videos = VideoNames
    /\ write_count["vid1"] = 0 /\ write_count["vid2"] = 1 /\ write_count["vid10"] = 1
    /\ outputs = VideoNames

====
